---- MODULE Spec2Model ----
(***************************************************************************)
(* Gesture control of the particle Christmas tree (src/src/App.tsx):       *)
(* the GestureController effect (setup / predictWebcam / cleanup) and the  *)
(* GrandTreeApp scene state it drives (sceneState, rotationSpeed,          *)
(* selectedPhotoIndex, the 100 ms pinch-resolution timers).                *)
(*                                                                         *)
(* Units: fingertip coordinates and scores are in hundredths (0.08 is 8,    *)
(* score 0.4 is 40); the wrist x is in 1/300 (0.5 is 150), so that the     *)
(* ends 0.5 - 1/15 and 0.5 + 1/15 of the rotation dead zone are on the     *)
(* grid; rotation speeds are in 1/10000 (0.01 is 100); pinch centre        *)
(* coordinates are in 1/200 (the midpoint of two hundredths).              *)
(***************************************************************************)
EXTENDS Integers, Sequences, FiniteSets, TLC

VARIABLES
    sceneState,          \* GrandTreeApp: "CHAOS" | "FORMED"
    rotationSpeed,       \* GrandTreeApp: last value given to setRotationSpeed
    selectedPhotoIndex,  \* GrandTreeApp: Null or an ornament index
    data,                \* PhotoOrnaments: data[i].isSelected of every ornament
    debugMode,           \* GrandTreeApp: debug toggle
    aiStatus,            \* GrandTreeApp: last value given to setAiStatus
    isPinching,          \* GestureController: isPinchingRef.current
    mounted,             \* GestureController mounted (videoRef.current set)
    setups,              \* one record per run of the GestureController effect
    timers,              \* pending setTimeout(..., 100) of handlePinchStart, in order
    leaked,              \* history: a torn-down effect run holds an open camera stream
    sincePinchEnd,       \* history: a PinchEnd was applied and no PinchStart emitted since
    pinchHist,           \* history: PinchStart minus PinchEnd events emitted so far, and
                         \* whether a pinch begun in FORMED has been held ever since
    prevEval,            \* history: the latest two consecutive pinch-evaluated frames
    last                 \* history: what the latest step did

vars == <<sceneState, rotationSpeed, selectedPhotoIndex, data, debugMode, aiStatus,
          isPinching, mounted, setups, timers, leaked, sincePinchEnd, pinchHist,
          prevEval, last>>

----------------------------------------------------------------------------
(* Bounds of the model *)

\* effect runs whose closures can still act (the current one and the survivors)
MaxSetups == 2
\* pending pinch-resolution timers
MaxTimers == 1
\* ornaments in the scene (CONFIG.counts.ornaments, 72 in the source, scaled down)
NumOrnaments == 2

\* selectedPhotoIndex === null
Null == 0 - 1

\* currentGesture === null
NoGesture == "null"

----------------------------------------------------------------------------
(* Frames delivered by the recognizer *)

\* the wrist (landmark 0) is at height 0.5 unless said otherwise
Frame(hand, n, wristX, thumb, index, label, score) ==
    [hand |-> hand, n |-> n, wristX |-> wristX, wristY |-> 50, thumb |-> thumb,
     index |-> index, label |-> label, score |-> score]

\* results.landmarks = [] and results.gestures = []
NoHandFrame == Frame(FALSE, 0, 0, <<0, 0, 0>>, <<0, 0, 0>>, "none", 0)

\* thumb tip (landmark 4) and index tip (landmark 8): 0.05 apart, 0.20 apart,
\* and sqrt(0.0066) apart (each axis below 0.08, the distance above it)
TipPairs ==
    { <<<<40, 40, 0>>, <<45, 40, 0>>>>,
      <<<<40, 40, 0>>, <<60, 40, 0>>>>,
      <<<<40, 40, 0>>, <<45, 45, 4>>>> }

\* results.gestures[0][0]: "none" stands for an empty results.gestures
Gestures ==
    { <<"none", 0>>, <<"Open_Palm", 41>>, <<"Open_Palm", 40>>,
      <<"Closed_Fist", 41>>, <<"Closed_Fist", 40>>, <<"Victory", 41>> }

\* the tip pairs 0.05 and 0.20 apart
PlainTipPairs ==
    { <<<<40, 40, 0>>, <<45, 40, 0>>>>, <<<<40, 40, 0>>, <<60, 40, 0>>>> }

\* a complete hand: every gesture with the tips 0.05 and 0.20 apart at wrist x
\* 0.5, and no gesture with every tip pair at wrist x 0.5 and with the tips
\* 0.05 and 0.20 apart at wrist x 0.2
FullHandFrames ==
    { Frame(TRUE, 21, 150, t[1], t[2], g[1], g[2]) : t \in PlainTipPairs, g \in Gestures }
    \cup { Frame(TRUE, 21, 150, t[1], t[2], "none", 0) : t \in TipPairs }
    \cup { Frame(TRUE, 21, 60, t[1], t[2], "none", 0) : t \in PlainTipPairs }

\* a hand reported with fewer than 9 landmark points, its wrist at 0.5 or at 0.2
\* (landmark 8 does not exist: the index field is never read by predictWebcam)
ShortHandFrames ==
    { Frame(TRUE, 5, w, <<40, 40, 0>>, <<45, 40, 0>>, g[1], g[2]) :
        w \in {150, 60}, g \in { <<"none", 0>>, <<"Closed_Fist", 41>> } }

\* a hand reported with 12 landmark points, tips 0.05 apart
PartialHandFrames ==
    { Frame(TRUE, 12, 150, <<40, 40, 0>>, <<45, 40, 0>>, "none", 0) }

\* results.landmarks = [[]]: a hand reported with no landmark point
EmptyHandFrames ==
    { Frame(TRUE, 0, 0, <<0, 0, 0>>, <<0, 0, 0>>, g[1], g[2]) :
        g \in { <<"none", 0>>, <<"Closed_Fist", 41>> } }

\* a complete hand raised to the height 0.2, tips 0.20 apart
RaisedHandFrames ==
    { [Frame(TRUE, 21, 150, <<40, 40, 0>>, <<60, 40, 0>>, "none", 0) EXCEPT !.wristY = 20] }

Frames ==
    {NoHandFrame} \cup FullHandFrames \cup ShortHandFrames \cup PartialHandFrames
    \cup EmptyHandFrames \cup RaisedHandFrames

\* wrist x from 0 to 1, around both ends of the dead zone (130 and 170)
WristGrid == {0, 60, 129, 130, 131, 150, 169, 170, 171, 240, 300}

\* the frames of the rotation study: a full hand at each wrist x, tips 0.05 or
\* 0.20 apart
WristFrames ==
    { Frame(TRUE, 21, w, t[1], t[2], "none", 0) :
        w \in WristGrid,
        t \in { <<<<40, 40, 0>>, <<45, 40, 0>>>>, <<<<40, 40, 0>>, <<60, 40, 0>>>> } }
    \cup {NoHandFrame}

\* the frames fed to the whole application
AppFrames ==
    { Frame(TRUE, 21, 150, <<40, 40, 0>>, <<60, 40, 0>>, "none", 0),
      Frame(TRUE, 21, 150, <<40, 40, 0>>, <<45, 40, 0>>, "Closed_Fist", 41),
      Frame(TRUE, 21, 150, <<40, 40, 0>>, <<60, 40, 0>>, "Open_Palm", 41) }

----------------------------------------------------------------------------
(* The gesture interpreter: one call of predictWebcam on a ready frame *)

Ev(type, a, b) == [type |-> type, a |-> a, b |-> b]

Abs(x) == IF x < 0 THEN -x ELSE x

\* variant of ScoreOK: the gate admits a score of exactly 0.4
ScoreOKLoose(score) == score >= 40

\* score > 0.4
ScoreOK(score) == score > 40

CurrentGesture(f) ==
    IF f.label # "none" /\ ScoreOK(f.score) THEN f.label ELSE NoGesture

\* variant of GestureEvents: every confident label but Closed_Fist disperses
GestureEventsAnyLabel(f) ==
    LET g == CurrentGesture(f) IN
    (IF g # NoGesture /\ g # "Closed_Fist" THEN <<Ev("SetFormation", "CHAOS", 0)>> ELSE <<>>)
    \o (IF g = "Closed_Fist" THEN <<Ev("SetFormation", "FORMED", 0)>> ELSE <<>>)

\* if (name === "Open_Palm") onGesture("CHAOS"); if (name === "Closed_Fist") onGesture("FORMED")
GestureEvents(f) ==
    LET g == CurrentGesture(f) IN
    (IF g = "Open_Palm" THEN <<Ev("SetFormation", "CHAOS", 0)>> ELSE <<>>)
    \o (IF g = "Closed_Fist" THEN <<Ev("SetFormation", "FORMED", 0)>> ELSE <<>>)

\* landmarks[0].x of an empty landmark list raises a TypeError
Throws(f) == f.hand /\ f.n = 0

\* (0.5 - landmarks[0].x) * 0.15
Speed(f) == (150 - f.wristX) * 5

\* variant of Damped: a speed of exactly 0.01 is passed on
DampedLoose(speed) == IF Abs(speed) >= 100 THEN speed ELSE 0

\* Math.abs(speed) > 0.01 ? speed : 0
Damped(speed) == IF Abs(speed) > 100 THEN speed ELSE 0

\* variant of MoveEvents: without a hand the rotation command follows the frame
MoveEventsDrift(f) ==
    IF Throws(f) THEN <<>>
    ELSE <<Ev("SetRotationSpeed", Damped(Speed(f)), 0)>>

MoveEvents(f) ==
    IF Throws(f) THEN <<>>
    ELSE IF f.hand
    THEN <<Ev("SetRotationSpeed", Damped(Speed(f)), 0)>>
    ELSE <<Ev("SetRotationSpeed", 0, 0)>>

\* distance * distance, in 1/10000
Dist2(f) ==
    LET dx == f.thumb[1] - f.index[1]
        dy == f.thumb[2] - f.index[2]
        dz == f.thumb[3] - f.index[3]
    IN dx * dx + dy * dy + dz * dz

\* Math.sqrt(d2) < 0.08
IsCurrentlyPinching(f) == Dist2(f) < 8 * 8

\* variant of PinchEvaluated: an Open_Palm label of any score skips the pinch
PinchEvaluatedByLabel(f) == f.hand /\ f.n >= 9 /\ f.label # "Open_Palm"

\* landmarks.length >= 9 && currentGesture !== "Open_Palm"
PinchEvaluated(f) == f.hand /\ f.n >= 9 /\ CurrentGesture(f) # "Open_Palm"

\* variant of PinchStartEv: the y coordinate is not flipped
PinchStartEvNoFlip(f) ==
    Ev("PinchStart", f.thumb[1] + f.index[1], f.thumb[2] + f.index[2])

\* onPinchStart(screenX, screenY), twice the coordinates
PinchStartEv(f) ==
    Ev("PinchStart", f.thumb[1] + f.index[1], 200 - (f.thumb[2] + f.index[2]))

\* variant of PinchEvents: PinchStart is level-triggered (repeated while held)
PinchEventsLevel(f, pinching) ==
    IF ~f.hand \/ Throws(f) THEN <<>>
    ELSE IF PinchEvaluated(f)
    THEN IF IsCurrentlyPinching(f) THEN <<PinchStartEv(f)>>
         ELSE IF pinching THEN <<Ev("PinchEnd", 0, 0)>> ELSE <<>>
    ELSE IF pinching THEN <<Ev("PinchEnd", 0, 0)>> ELSE <<>>

\* the pinch branch, its else, and the no-hand branch
PinchEvents(f, pinching) ==
    IF ~f.hand \/ Throws(f) THEN <<>>
    ELSE IF PinchEvaluated(f)
    THEN IF IsCurrentlyPinching(f) /\ ~pinching THEN <<PinchStartEv(f)>>
         ELSE IF ~IsCurrentlyPinching(f) /\ pinching THEN <<Ev("PinchEnd", 0, 0)>>
         ELSE <<>>
    ELSE IF pinching THEN <<Ev("PinchEnd", 0, 0)>> ELSE <<>>

\* variant of NextPinching: the reset branch leaves isPinchingRef as it is
NextPinchingKeep(f, pinching) ==
    IF ~f.hand \/ Throws(f) THEN pinching
    ELSE IF PinchEvaluated(f)
    THEN IF IsCurrentlyPinching(f) /\ ~pinching THEN TRUE
         ELSE IF ~IsCurrentlyPinching(f) /\ pinching THEN FALSE
         ELSE pinching
    ELSE pinching

\* isPinchingRef.current after the pinch branch, its else, or the no-hand branch
NextPinching(f, pinching) ==
    IF ~f.hand \/ Throws(f) THEN pinching
    ELSE IF PinchEvaluated(f)
    THEN IF IsCurrentlyPinching(f) /\ ~pinching THEN TRUE
         ELSE IF ~IsCurrentlyPinching(f) /\ pinching THEN FALSE
         ELSE pinching
    ELSE FALSE

Interpret(f, pinching) == GestureEvents(f) \o MoveEvents(f) \o PinchEvents(f, pinching)

Has(events, type) == \E k \in DOMAIN events : events[k].type = type

Count(events, type) == Cardinality({k \in DOMAIN events : events[k].type = type})

\* the types of the pinch events among events, in order
PinchPart(events) ==
    LET sel == SelectSeq(events, LAMBDA e : e.type \in {"PinchStart", "PinchEnd"})
    IN [k \in DOMAIN sel |-> sel[k].type]

First(events, type) ==
    events[CHOOSE k \in DOMAIN events :
              /\ events[k].type = type
              /\ \A j \in DOMAIN events : events[j].type = type => k <= j]

----------------------------------------------------------------------------
(* The effect of GestureController and the scene state of GrandTreeApp *)

\* a status line: its leading word(s) and the rest
Status(head, rest) == <<head, rest>>

\* aiStatus.includes("ERROR")
IsError(status) == status[1] = "ERROR"

\* variant of CatchStatus: the message of the error is shown as it is
CatchStatusBare(msg) == Status(IF msg = "" THEN "MODEL FAILED" ELSE msg, "")

\* `ERROR: ${err.message || "MODEL FAILED"}`
CatchStatus(msg) == Status("ERROR", IF msg = "" THEN "MODEL FAILED" ELSE msg)

\* what a failing setup reports: the catch after a rejected await, or the
\* else branch of a browser without navigator.mediaDevices
FailStatuses(pc) ==
    IF pc = "download"
    THEN {CatchStatus("")}
    ELSE {CatchStatus("Permission denied"), Status("ERROR", "CAMERA PERMISSION DENIED")}

\* the onStatus calls of one predictWebcam iteration in debug mode, in order
DebugStatuses(f, pinching) ==
    (IF CurrentGesture(f) # NoGesture THEN <<Status("DETECTED", f.label)>> ELSE <<>>)
    \o (IF Throws(f) THEN <<>>
        ELSE IF ~f.hand THEN <<Status("AI READY", "NO HAND")>>
        ELSE IF PinchEvaluated(f)
        THEN (IF Dist2(f) < 15 * 15
              THEN <<Status("Distance", IF IsCurrentlyPinching(f) THEN "true" ELSE "false")>>
              ELSE <<>>)
             \o (IF IsCurrentlyPinching(f) /\ ~pinching THEN <<Status("PINCH START", "")>>
                 ELSE IF ~IsCurrentlyPinching(f) /\ pinching
                 THEN <<Status("PINCH END", "Photo returning")>>
                 ELSE <<>>)
        ELSE <<>>)

\* aiStatus after the onStatus calls of calls, in order
Reported(status, calls) == IF calls = <<>> THEN status ELSE calls[Len(calls)]

Setup(scene, debug) ==
    [pc |-> "download", scene |-> scene, debug |-> debug, torn |-> FALSE, stream |-> FALSE]

NoLast ==
    [kind |-> "other", frame |-> NoHandFrame, events |-> <<>>, prePinch |-> FALSE,
     preScene |-> "CHAOS", prePrev |-> <<>>, tornBefore |-> FALSE,
     deferred |-> FALSE, sets |-> FALSE, accForm |-> "CHAOS",
     raised |-> FALSE, turned |-> FALSE, afterNoHand |-> FALSE, byStream |-> FALSE,
     hit |-> Null, target |-> Null, stored |-> {}, accepted |-> FALSE,
     heldBefore |-> FALSE, x |-> 0, y |-> 0, afterFail |-> FALSE]

\* the cleanup of an effect run: cancelAnimationFrame(requestRef)
Cleanup(s) ==
    [s EXCEPT !.torn = TRUE, !.pc = IF s.pc = "loop" THEN "cancelled" ELSE s.pc]

\* an effect run that was torn down and has no await or animation frame pending
Dead(s) == s.torn /\ s.pc \in {"cancelled", "failed", "idle", "stopped", "crashed"}

Live(ss) == SelectSeq(ss, LAMBDA s : ~Dead(s))

CleanupCurrent(ss) == [ss EXCEPT ![Len(ss)] = Cleanup(ss[Len(ss)])]

\* a change of handlePinchStart (sceneState) or of debugMode re-runs the effect:
\* the cleanup of the current run, then setup() with the new closures
ReRun(ss, scene, debug) == Append(Live(CleanupCurrent(ss)), Setup(scene, debug))

CanReRun == Len(ReRun(setups, sceneState, debugMode)) <= MaxSetups

\* variant of NewScene: the formation falls back to CHAOS without a gesture
NewSceneReset(events, scene) ==
    IF Has(events, "SetFormation") THEN First(events, "SetFormation").a ELSE "CHAOS"

\* sceneState after the onGesture calls of events (onGesture is setSceneState)
NewScene(events, scene) ==
    IF Has(events, "SetFormation") THEN First(events, "SetFormation").a ELSE scene

\* variant of NewRotation: the speed is added to the stored one
NewRotationAdded(events, speed) ==
    IF Has(events, "SetRotationSpeed")
    THEN speed + First(events, "SetRotationSpeed").a ELSE speed

\* rotationSpeed after the onMove calls of events (onMove is setRotationSpeed)
NewRotation(events, speed) ==
    IF Has(events, "SetRotationSpeed") THEN First(events, "SetRotationSpeed").a ELSE speed

\* variant of Toggled: the button only assembles
ToggledAssemble(scene) == "FORMED"

\* setSceneState((s) => (s === "CHAOS" ? "FORMED" : "CHAOS"))
Toggled(scene) == IF scene = "CHAOS" THEN "FORMED" ELSE "CHAOS"

\* variant of SelectionEffect: the flag of a deselected ornament is not cleared
SelectionEffectKeeps(d, selected) ==
    [i \in DOMAIN d |-> [isSelected |-> d[i].isSelected \/ (selected # Null /\ i = selected)]]

\* the selection effect of PhotoOrnaments: data.forEach sets and clears isSelected
SelectionEffect(d, selected) ==
    [i \in DOMAIN d |->
        IF i = selected /\ selected # Null
        THEN [isSelected |-> TRUE]
        ELSE [isSelected |-> IF d[i].isSelected THEN FALSE ELSE d[i].isSelected]]

\* the ornaments whose originalPosition the effect overwrites:
\* if (!d.isSelected) d.originalPosition.copy(d.currentPos)
Stored(d, selected) ==
    {i \in DOMAIN d : i = selected /\ selected # Null /\ ~d[i].isSelected}

\* the tips of a hand are seen close together
TipsClose(f) == f.hand /\ f.n >= 9 /\ Dist2(f) < 8 * 8

\* variant of PhotoIndex: no random fallback
PhotoIndexNoFallback(hit, rnd) == hit

\* photoIndex after the hit test and the random fallback
PhotoIndex(hit, rnd) == IF hit = Null THEN rnd ELSE hit

\* Math.floor(Math.random() * CONFIG.counts.ornaments)
RandomIndexes == 0..(NumOrnaments - 1)

\* photoGroupRef.current.children, each child with the ornaments whose photo
\* meshes group.traverse reaches: the one child is the root group of
\* PhotoOrnaments, which holds the group of every ornament
PhotoGroupChildren == << 0..(NumOrnaments - 1) >>

\* what the ray of a pinch meets: the ornament of the nearest photo mesh it
\* intersects, or Null
RayTargets == {Null} \cup (0..(NumOrnaments - 1))

\* the situations a pinch timer can find: window.findClosestPhoto not registered;
\* registered with the refs not set; the ray meeting an ornament; the ray meeting
\* none, with or without a child of the photo group within distance 15
HitTests ==
    { [registered |-> FALSE, built |-> FALSE, target |-> Null, near |-> FALSE],
      [registered |-> TRUE, built |-> FALSE, target |-> Null, near |-> FALSE],
      [registered |-> TRUE, built |-> TRUE, target |-> Null, near |-> TRUE] }
    \cup { [registered |-> TRUE, built |-> TRUE, target |-> t, near |-> FALSE] :
             t \in RayTargets }

\* findClosestPhoto: built says that cameraRef and photoGroupRef are set, target
\* is the ornament of the nearest intersected photo mesh (or Null), near says
\* that the ray passes a child of the photo group at a distance below 15 (there
\* is one child, so the closest is child 0)
FindClosestPhoto(built, target, near) ==
    IF ~built THEN Null
    ELSE IF target # Null
    THEN (CHOOSE k \in DOMAIN PhotoGroupChildren : target \in PhotoGroupChildren[k]) - 1
    ELSE IF near THEN 0
    ELSE Null

\* an open stream is left to a torn-down run
Leaks(ss) == \E k \in DOMAIN ss : ss[k].torn /\ ss[k].stream

Init ==
    /\ sceneState = "CHAOS"
    /\ rotationSpeed = 0
    /\ selectedPhotoIndex = Null
    /\ data = [i \in 0..(NumOrnaments - 1) |-> [isSelected |-> FALSE]]
    /\ pinchHist = [balance |-> 0, dropped |-> FALSE]
    /\ debugMode = FALSE
    /\ aiStatus = Status("DOWNLOADING AI...", "")
    /\ isPinching = FALSE
    /\ mounted = TRUE
    /\ setups = <<Setup("CHAOS", FALSE)>>
    /\ timers = <<>>
    /\ leaked = FALSE
    /\ sincePinchEnd = FALSE
    /\ prevEval = <<>>
    /\ last = [NoLast EXCEPT !.kind = "init"]

\* FilesetResolver.forVisionTasks and GestureRecognizer.createFromOptions resolve
ModelLoaded(i) ==
    /\ setups[i].pc = "download"
    /\ setups' = [setups EXCEPT ![i].pc = "camera"]
    /\ aiStatus' = IF mounted THEN Status("REQUESTING CAMERA...", "") ELSE aiStatus
    /\ last' = NoLast
    /\ UNCHANGED <<sceneState, rotationSpeed, selectedPhotoIndex, data, debugMode,
                   isPinching, mounted, timers, leaked, sincePinchEnd, pinchHist,
                   prevEval>>

\* an await rejects and the catch reports the error, or the browser has no
\* navigator.mediaDevices
SetupFailed(i) ==
    /\ setups[i].pc \in {"download", "camera"}
    /\ setups' = Live([setups EXCEPT ![i].pc = "failed"])
    /\ \E status \in FailStatuses(setups[i].pc) :
          aiStatus' = IF mounted THEN status ELSE aiStatus
    /\ last' = [NoLast EXCEPT !.kind = "fail"]
    /\ UNCHANGED <<sceneState, rotationSpeed, selectedPhotoIndex, data, debugMode,
                   isPinching, mounted, timers, leaked, sincePinchEnd, pinchHist,
                   prevEval>>

\* getUserMedia resolves: the stream is attached and predictWebcam starts
CameraGranted(i) ==
    LET ss == [setups EXCEPT ![i].stream = TRUE,
                             ![i].pc = IF mounted THEN "loop" ELSE "idle"] IN
    /\ setups[i].pc = "camera"
    /\ setups' = Live(ss)
    /\ aiStatus' = IF mounted THEN Status("AI READY", "SHOW HAND") ELSE aiStatus
    /\ leaked' = (leaked \/ Leaks(ss))
    /\ last' = NoLast
    /\ UNCHANGED <<sceneState, rotationSpeed, selectedPhotoIndex, data, debugMode,
                   isPinching, mounted, timers, sincePinchEnd, pinchHist, prevEval>>

\* one iteration of predictWebcam of effect run i on a ready frame f, with the
\* re-render and the effects that follow its state updates
ProcessFrame(i, f) ==
    LET events == Interpret(f, isPinching)
        newScene == NewScene(events, sceneState)
        started == Has(events, "PinchStart")
        ended == Has(events, "PinchEnd")
        accepted == started /\ setups[i].scene = "CHAOS"
        start == First(events, "PinchStart")
        newSelected == IF ended \/ (newScene # sceneState /\ newScene = "FORMED")
                       THEN Null ELSE selectedPhotoIndex
        \* a TypeError leaves predictWebcam before requestAnimationFrame
        ss == IF Throws(f) THEN [setups EXCEPT ![i].pc = "crashed"] ELSE setups
    IN
    /\ mounted
    /\ setups[i].pc = "loop"
    /\ newScene # sceneState => CanReRun
    /\ accepted => Len(timers) < MaxTimers
    /\ sceneState' = newScene
    /\ rotationSpeed' = NewRotation(events, rotationSpeed)
    /\ aiStatus' =
          IF newScene # sceneState
          THEN Status("DOWNLOADING AI...", "")
          ELSE IF setups[i].debug
               THEN Reported(aiStatus, DebugStatuses(f, isPinching)) ELSE aiStatus
    /\ isPinching' = NextPinching(f, isPinching)
    /\ timers' = IF accepted
                 THEN Append(timers, [x |-> start.a, y |-> start.b, form |-> newScene])
                 ELSE timers
    /\ selectedPhotoIndex' = newSelected
    /\ data' = SelectionEffect(data, newSelected)
    /\ pinchHist' =
          [balance |-> pinchHist.balance + Count(events, "PinchStart")
                          - Count(events, "PinchEnd"),
           dropped |-> IF started /\ sceneState = "FORMED" /\ newScene = "FORMED"
                       THEN TRUE ELSE pinchHist.dropped /\ TipsClose(f)]
    /\ setups' = IF newScene # sceneState THEN ReRun(ss, newScene, debugMode) ELSE Live(ss)
    /\ leaked' = (leaked \/ (newScene # sceneState /\ Leaks(CleanupCurrent(setups))))
    /\ sincePinchEnd' = IF ended THEN TRUE ELSE IF started THEN FALSE ELSE sincePinchEnd
    /\ prevEval' =
          IF PinchEvaluated(f)
          THEN LET h == Append(prevEval, [d2 |-> Dist2(f), ev |-> PinchPart(events)])
               IN IF Len(h) = 3 THEN Tail(h) ELSE h
          ELSE <<>>
    /\ last' = [NoLast EXCEPT !.kind = "frame", !.frame = f, !.events = events,
                  !.prePinch = isPinching, !.preScene = sceneState, !.prePrev = prevEval,
                  !.tornBefore = setups[i].torn, !.deferred = (timers # <<>>),
                  !.raised = (ss[i].pc = "crashed"),
                  !.turned = (NewRotation(events, rotationSpeed) # rotationSpeed),
                  !.stored = Stored(data, newSelected), !.accepted = accepted,
                  !.heldBefore = pinchHist.dropped,
                  !.afterNoHand = (last.kind = "frame" /\ ~last.frame.hand),
                  !.byStream = setups[i].stream]
    /\ UNCHANGED <<debugMode, mounted>>

\* variant of IdleFrame: an iteration without a frame stops the rotation
IdleFrameStops(i) ==
    /\ mounted
    /\ setups[i].pc = "loop"
    /\ rotationSpeed' = 0
    /\ last' = [NoLast EXCEPT !.kind = "idle"]
    /\ UNCHANGED <<sceneState, selectedPhotoIndex, data, debugMode, aiStatus,
                   isPinching, mounted, setups, timers, leaked, sincePinchEnd,
                   pinchHist, prevEval>>

\* one iteration of predictWebcam of effect run i while videoWidth is 0: nothing
\* is recognised, and requestAnimationFrame schedules the next iteration
IdleFrame(i) ==
    /\ mounted
    /\ setups[i].pc = "loop"
    /\ last' = [NoLast EXCEPT !.kind = "idle"]
    /\ UNCHANGED <<sceneState, rotationSpeed, selectedPhotoIndex, data, debugMode,
                   aiStatus, isPinching, mounted, setups, timers, leaked,
                   sincePinchEnd, pinchHist, prevEval>>

\* the timeout body of handlePinchStart: hit-test, random fallback, selection
TimerFires ==
    /\ timers # <<>>
    /\ timers' = Tail(timers)
    /\ \E t \in HitTests, rnd \in RandomIndexes :
          \* photoIndex stays null when window.findClosestPhoto is not there
          LET hit == IF t.registered THEN FindClosestPhoto(t.built, t.target, t.near)
                     ELSE Null
              newSelected == IF mounted THEN PhotoIndex(hit, rnd) ELSE selectedPhotoIndex
          IN
          /\ selectedPhotoIndex' = newSelected
          /\ data' = IF mounted THEN SelectionEffect(data, newSelected) ELSE data
          /\ last' = [NoLast EXCEPT !.kind = "timer", !.sets = mounted,
                                     !.stored = IF mounted THEN Stored(data, newSelected)
                                                ELSE {},
                                     !.accForm = Head(timers).form, !.hit = hit,
                                     !.target = t.target,
                                     !.x = Head(timers).x, !.y = Head(timers).y]
    /\ UNCHANGED <<sceneState, rotationSpeed, debugMode, aiStatus, isPinching,
                   mounted, setups, leaked, sincePinchEnd, pinchHist, prevEval>>

\* the "Assemble Tree" / "Disperse" button
ToggleFormation ==
    LET newScene == Toggled(sceneState)
        newSelected == IF newScene = "FORMED" THEN Null ELSE selectedPhotoIndex
    IN
    /\ mounted
    /\ CanReRun
    /\ sceneState' = newScene
    /\ selectedPhotoIndex' = newSelected
    /\ data' = SelectionEffect(data, newSelected)
    /\ setups' = ReRun(setups, newScene, debugMode)
    /\ aiStatus' = Status("DOWNLOADING AI...", "")
    /\ leaked' = (leaked \/ Leaks(CleanupCurrent(setups)))
    /\ last' = [NoLast EXCEPT !.kind = "toggle", !.preScene = sceneState,
                               !.stored = Stored(data, newSelected),
                               !.afterFail = (setups[Len(setups)].pc = "failed")]
    /\ UNCHANGED <<rotationSpeed, debugMode, isPinching, mounted, timers,
                   sincePinchEnd, pinchHist, prevEval>>

\* the DEBUG button
ToggleDebug ==
    /\ mounted
    /\ CanReRun
    /\ debugMode' = ~debugMode
    /\ setups' = ReRun(setups, sceneState, ~debugMode)
    /\ aiStatus' = Status("DOWNLOADING AI...", "")
    /\ leaked' = (leaked \/ Leaks(CleanupCurrent(setups)))
    /\ last' = NoLast
    /\ UNCHANGED <<sceneState, rotationSpeed, selectedPhotoIndex, data, isPinching,
                   mounted, timers, sincePinchEnd, pinchHist, prevEval>>

\* the component unmounts: the current effect run is cleaned up, the refs go null
Unmount ==
    /\ mounted
    /\ mounted' = FALSE
    /\ setups' = Live(CleanupCurrent(setups))
    /\ leaked' = (leaked \/ Leaks(CleanupCurrent(setups)))
    /\ last' = NoLast
    /\ UNCHANGED <<sceneState, rotationSpeed, selectedPhotoIndex, data, debugMode,
                   aiStatus, isPinching, timers, sincePinchEnd, pinchHist, prevEval>>

\* predictWebcam of a surviving loop finds videoRef.current null and ends
LoopEnds(i) ==
    /\ ~mounted
    /\ setups[i].pc = "loop"
    /\ setups' = Live([setups EXCEPT ![i].pc = "stopped"])
    /\ last' = NoLast
    /\ UNCHANGED <<sceneState, rotationSpeed, selectedPhotoIndex, data, debugMode,
                   aiStatus, isPinching, mounted, timers, leaked, sincePinchEnd,
                   pinchHist, prevEval>>

\* the whole application
Next ==
    \/ \E i \in DOMAIN setups : ModelLoaded(i)
    \/ \E i \in DOMAIN setups : SetupFailed(i)
    \/ \E i \in DOMAIN setups : CameraGranted(i)
    \/ \E i \in DOMAIN setups, f \in AppFrames : ProcessFrame(i, f)
    \/ \E i \in DOMAIN setups : IdleFrame(i)
    \/ TimerFires
    \/ ToggleFormation
    \/ ToggleDebug
    \/ Unmount
    \/ \E i \in DOMAIN setups : LoopEnds(i)

Spec == Init /\ [][Next]_vars

\* the gesture subsystem driven by the camera alone (no button, no failure)
GestureNext ==
    \/ \E i \in DOMAIN setups : ModelLoaded(i)
    \/ \E i \in DOMAIN setups : CameraGranted(i)
    \/ \E i \in DOMAIN setups, f \in Frames : ProcessFrame(i, f)
    \/ \E i \in DOMAIN setups : IdleFrame(i)
    \/ TimerFires

GestureSpec == Init /\ [][GestureNext]_vars

\* the rotation study: the camera alone, a hand at every wrist x of the grid
RotationNext ==
    \/ \E i \in DOMAIN setups : ModelLoaded(i)
    \/ \E i \in DOMAIN setups : CameraGranted(i)
    \/ \E i \in DOMAIN setups, f \in WristFrames : ProcessFrame(i, f)
    \/ \E i \in DOMAIN setups : IdleFrame(i)
    \/ TimerFires

RotationSpec == Init /\ [][RotationNext]_vars

----------------------------------------------------------------------------
(* Properties *)

FrameStep == last.kind = "frame"

\* C1: a processed frame with no hand leaves PinchState false, and emits exactly
\* one PinchEnd when PinchState was true before it.
C1_HandLostEndsPinch ==
    (FrameStep /\ ~last.frame.hand) =>
        /\ ~isPinching
        /\ last.prePinch => Count(last.events, "PinchEnd") = 1

\* C2: whenever the formation is FORMED, no ornament is selected.
C2_FormedClearsSelection ==
    sceneState = "FORMED" => selectedPhotoIndex = Null

\* C3: a processed frame whose current gesture is Open_Palm emits neither
\* PinchStart nor PinchEnd.
C3_OpenPalmNoPinchEvent ==
    (FrameStep /\ CurrentGesture(last.frame) = "Open_Palm") =>
        PinchPart(last.events) = <<>>

\* C4: on a processed frame that evaluates pinch, PinchStart is emitted exactly
\* once on a false->true edge of (distance < 0.08), PinchEnd exactly once on a
\* true->false edge, nothing when the condition equals the stored PinchState,
\* and the stored PinchState is the condition of the preceding evaluated frame;
\* distances 0.20, 0.05, 0.20 from PinchState false give PinchStart, then PinchEnd.
C4_EdgeTriggered ==
    (FrameStep /\ PinchEvaluated(last.frame)) =>
        LET cond == IsCurrentlyPinching(last.frame)
            h == last.prePrev
        IN
        /\ PinchPart(last.events) =
              IF cond /\ ~last.prePinch THEN <<"PinchStart">>
              ELSE IF ~cond /\ last.prePinch THEN <<"PinchEnd">>
              ELSE <<>>
        /\ isPinching = cond
        /\ h # <<>> => last.prePinch = (h[Len(h)].d2 < 8 * 8)
        /\ (/\ Len(h) = 2
            /\ h[1].d2 = 20 * 20 /\ h[1].ev = <<>>
            /\ h[2].d2 = 5 * 5
            /\ Dist2(last.frame) = 20 * 20)
           => h[2].ev = <<"PinchStart">> /\ PinchPart(last.events) = <<"PinchEnd">>

\* C4 witness: the third frame of the distances 0.20, 0.05, 0.20 has been processed
\* and closed the pinch the second one opened.
C4_Witness ==
    /\ FrameStep /\ PinchEvaluated(last.frame)
    /\ Len(last.prePrev) = 2
    /\ last.prePrev[1].d2 = 20 * 20 /\ last.prePrev[1].ev = <<>>
    /\ last.prePrev[2].d2 = 5 * 5 /\ last.prePrev[2].ev = <<"PinchStart">>
    /\ Dist2(last.frame) = 20 * 20
    /\ PinchPart(last.events) = <<"PinchEnd">>
    /\ ~isPinching

\* C5: once a PinchEnd has been applied, no ornament is selected until a later
\* PinchStart is emitted.
C5_PinchEndClears ==
    sincePinchEnd => selectedPhotoIndex = Null

\* C6: when the events of a frame are applied, no state change caused by an
\* earlier frame's event is still waiting to be applied.
C6_NoDeferral ==
    FrameStep => ~last.deferred

\* C7: a selection is set only by a PinchStart emitted while the formation, after
\* the same frame's formation event, was CHAOS.
C7_PinchStartOnlyInChaos ==
    (last.kind = "timer" /\ last.sets) => last.accForm = "CHAOS"

\* C8: no frame is processed by the loop of an effect run whose teardown has run.
C8_NoFrameAfterTeardown ==
    FrameStep => ~last.tornBefore

\* C9: no camera stream acquired by an effect run is open once that run's
\* teardown has run.
C9_StreamReleased ==
    /\ ~leaked
    /\ \A k \in DOMAIN setups : setups[k].torn => ~setups[k].stream

\* C10: a processed frame without a classified gesture, or whose top gesture has
\* score <= 0.4, emits no SetFormation and leaves the formation unchanged.
C10_ConfidenceGate ==
    (FrameStep /\ (last.frame.label = "none" \/ last.frame.score <= 40)) =>
        /\ ~Has(last.events, "SetFormation")
        /\ sceneState = last.preScene

\* C10 witness: a Closed_Fist of score exactly 0.4 was processed in CHAOS.
C10_Witness ==
    /\ FrameStep
    /\ last.frame.label = "Closed_Fist" /\ last.frame.score = 40
    /\ last.preScene = "CHAOS" /\ sceneState = "CHAOS"

\* the events of one type among events, in order
Only(events, type) == SelectSeq(events, LAMBDA e : e.type = type)

\* C11: on a frame whose label has a score above 0.4, Open_Palm emits exactly
\* SetFormation(CHAOS), Closed_Fist emits exactly SetFormation(FORMED), any other
\* label emits no formation event; afterwards sceneState is the emitted value,
\* whatever it was before.
C11_LabelMapping ==
    (FrameStep /\ last.frame.label # "none" /\ last.frame.score > 40) =>
        LET formation == Only(last.events, "SetFormation") IN
        /\ last.frame.label = "Open_Palm" =>
              formation = <<Ev("SetFormation", "CHAOS", 0)>> /\ sceneState = "CHAOS"
        /\ last.frame.label = "Closed_Fist" =>
              formation = <<Ev("SetFormation", "FORMED", 0)>> /\ sceneState = "FORMED"
        /\ last.frame.label \notin {"Open_Palm", "Closed_Fist"} =>
              formation = <<>> /\ sceneState = last.preScene

\* C11 witness: a confident Open_Palm has dispersed an assembled tree
C11_Witness ==
    /\ FrameStep
    /\ last.frame.label = "Open_Palm" /\ last.frame.score = 41
    /\ last.preScene = "FORMED"
    /\ sceneState = "CHAOS"

\* C12: with a hand at wrist x, the emitted rotation speed is 0 when
\* |0.5 - x| * 0.15 <= 0.01 and (0.5 - x) * 0.15, which is not 0, otherwise; a
\* speed of exactly 0.01 or -0.01 gives 0.
C12_DeadZone ==
    (FrameStep /\ last.frame.hand /\ last.frame.n > 0) =>
        LET raw == (150 - last.frame.wristX) * 5
            rotation == Only(last.events, "SetRotationSpeed")
        IN
        /\ Len(rotation) = 1
        /\ rotation[1].a = IF Abs(raw) <= 100 THEN 0 ELSE raw
        /\ Abs(raw) > 100 => rotation[1].a # 0

\* C12 witness: a hand at the end 0.5 - 1/15 of the dead zone (speed 0.01) gave 0
C12_Witness ==
    /\ FrameStep
    /\ last.frame.hand /\ last.frame.wristX = 130
    /\ Only(last.events, "SetRotationSpeed") = <<Ev("SetRotationSpeed", 0, 0)>>
    /\ rotationSpeed = 0

\* C13: a frame without a hand emits SetRotationSpeed(0), no PinchStart, and no
\* PinchEnd other than one closing a pinch held when the hand vanished; a second
\* such frame in a row emits no pinch event and leaves PinchState as the first did.
C13_NoHandIdempotent ==
    (FrameStep /\ ~last.frame.hand) =>
        /\ Only(last.events, "SetRotationSpeed") = <<Ev("SetRotationSpeed", 0, 0)>>
        /\ rotationSpeed = 0
        /\ ~Has(last.events, "PinchStart")
        /\ Count(last.events, "PinchEnd") <= (IF last.prePinch THEN 1 ELSE 0)
        /\ last.afterNoHand =>
              /\ PinchPart(last.events) = <<>>
              /\ isPinching = last.prePinch

\* C13 witness: a second frame without a hand in a row has been processed
C13_Witness ==
    /\ FrameStep
    /\ ~last.frame.hand
    /\ last.afterNoHand
    /\ rotationSpeed = 0

\* C14: a processed frame yields at most one formation event, then exactly one
\* rotation-speed event, then at most one pinch event, in this order.
C14_EventShape ==
    FrameStep =>
        LET types == [k \in DOMAIN last.events |-> last.events[k].type] IN
        \E formation \in {<<>>, <<"SetFormation">>},
           pinch \in {<<>>, <<"PinchStart">>, <<"PinchEnd">>} :
              types = formation \o <<"SetRotationSpeed">> \o pinch

\* C15 as stated: a hand with a landmark count other than 21 (here 1 to 20 points)
\* gets rotation speed 0 and no PinchStart.
C15_MalformedAsNoHand ==
    (FrameStep /\ last.frame.hand /\ last.frame.n # 21 /\ last.frame.n >= 1) =>
        /\ Only(last.events, "SetRotationSpeed") = <<Ev("SetRotationSpeed", 0, 0)>>
        /\ ~Has(last.events, "PinchStart")

\* C16: no processed frame, whatever its landmark count, raises an error: the
\* loop is scheduled again after it.
C16_NeverFatal ==
    FrameStep => ~last.raised

\* C17: a failing setup reports a status containing ERROR, has emitted and will
\* emit no gesture event (frames are processed only by a run that holds a camera
\* stream, a failed run holds none), and the manual toggle still flips sceneState.
C17_SetupFailureNotFatal ==
    /\ (last.kind = "fail" /\ mounted) => IsError(aiStatus)
    /\ \A k \in DOMAIN setups : setups[k].pc = "failed" => ~setups[k].stream
    /\ FrameStep => last.byStream
    /\ last.kind = "toggle" =>
          sceneState = (IF last.preScene = "CHAOS" THEN "FORMED" ELSE "CHAOS")

\* C17 witness: the toggle has assembled the tree after the current setup failed
C17_Witness ==
    /\ last.kind = "toggle"
    /\ last.afterFail
    /\ last.preScene = "CHAOS"
    /\ sceneState = "FORMED"

\* C18: selectedPhotoIndex is null or an ornament index; when the timer of a
\* pinch sets it, a hit-test that returned null (or was not registered) leaves an
\* index in range, and a hit-test that returned an index leaves that index.
C18_SelectionValid ==
    /\ selectedPhotoIndex = Null \/ selectedPhotoIndex \in 0..(NumOrnaments - 1)
    /\ (last.kind = "timer" /\ last.sets) =>
          IF last.hit = Null
          THEN selectedPhotoIndex \in 0..(NumOrnaments - 1)
          ELSE selectedPhotoIndex = last.hit

\* C18 witness: the hit-test found nothing and the fallback chose ornament 1
C18_Witness ==
    /\ last.kind = "timer" /\ last.sets
    /\ last.hit = Null
    /\ selectedPhotoIndex = 1

\* C19: PinchStart carries cx = (thumb.x + index.x) / 2 and
\* cy = 1 - (thumb.y + index.y) / 2 of the frame where the pinch began
\* (coordinates in 1/200: twice cx, and 200 for 1).
C19_PinchCentre ==
    (FrameStep /\ Has(last.events, "PinchStart")) =>
        LET start == Only(last.events, "PinchStart") IN
        /\ Len(start) = 1
        /\ start[1].a = last.frame.thumb[1] + last.frame.index[1]
        /\ start[1].b = 200 - (last.frame.thumb[2] + last.frame.index[2])
        /\ last.preScene = "CHAOS" =>
              /\ timers # <<>>
              /\ timers[Len(timers)].x = start[1].a
              /\ timers[Len(timers)].y = start[1].b

\* C19 witness: tips at (0.40, 0.40) and (0.45, 0.40) began a pinch at (0.425, 0.60)
C19_Witness ==
    /\ FrameStep
    /\ last.frame.thumb = <<40, 40, 0>> /\ last.frame.index = <<45, 40, 0>>
    /\ Only(last.events, "PinchStart") = <<Ev("PinchStart", 85, 120)>>

\* C20 as stated: sceneState changes only when a SetFormation event of the
\* interpreter is applied.
C20_OnlySetFormation ==
    [][sceneState' # sceneState =>
          (last'.kind = "frame" /\ Has(last'.events, "SetFormation"))]_vars

\* C20: sceneState changes only when a SetFormation event of the interpreter is
\* applied (to the value it carries) or when the manual toggle button is pressed
\* (to the other formation).
C20_SetFormationOrToggle ==
    [][sceneState' # sceneState =>
          \/ /\ last'.kind = "frame"
             /\ Has(last'.events, "SetFormation")
             /\ sceneState' = First(last'.events, "SetFormation").a
          \/ /\ last'.kind = "toggle"
             /\ sceneState' = (IF sceneState = "CHAOS" THEN "FORMED" ELSE "CHAOS")]_vars

\* C20 witness: the button assembled the tree while the current setup was running
C20_Witness ==
    /\ last.kind = "toggle"
    /\ ~last.afterFail
    /\ last.preScene = "CHAOS"
    /\ sceneState = "FORMED"
    /\ selectedPhotoIndex = Null

\* C21: when the SetRotationSpeed of a processed frame is applied, rotationSpeed
\* is exactly the value it carries, whatever it was before; a frame that emits
\* nothing else changes neither sceneState nor selectedPhotoIndex.
C21_AbsoluteRotation ==
    [][(last'.kind = "frame" /\ Has(last'.events, "SetRotationSpeed")) =>
          /\ rotationSpeed' = First(last'.events, "SetRotationSpeed").a
          /\ Len(last'.events) = 1 =>
                /\ sceneState' = sceneState
                /\ selectedPhotoIndex' = selectedPhotoIndex]_vars

\* C21 witness: a hand at wrist x 0.5 replaced a speed of 0.045 by 0 while a photo
\* stayed selected
C21_Witness ==
    /\ FrameStep
    /\ last.frame.hand /\ last.frame.wristX = 150
    /\ last.turned
    /\ rotationSpeed = 0
    /\ Len(last.events) = 1
    /\ selectedPhotoIndex # Null

\* C22: a loop iteration without a ready camera frame emits no event, leaves
\* sceneState, rotationSpeed, selectedPhotoIndex and PinchState as they were, and
\* the loop stays scheduled.
C22_NoFrameNoChange ==
    [][last'.kind = "idle" =>
          /\ last'.events = <<>>
          /\ UNCHANGED <<sceneState, rotationSpeed, selectedPhotoIndex, isPinching, timers>>
          /\ \E i \in DOMAIN setups : setups[i].pc = "loop"
          /\ setups' = setups]_vars

\* C22 witness: an iteration without a frame passed while a pinch was held, a
\* photo selected and the scene turning
C22_Witness ==
    /\ last.kind = "idle"
    /\ isPinching
    /\ selectedPhotoIndex # Null
    /\ rotationSpeed = 450
    /\ sceneState = "CHAOS"

\* C24: when two processed frames in a row show the same hand but for the height
\* of its wrist, the second changes the view: some output of the scene controller
\* depends on the wrist y.
C24_VerticalPitch ==
    [][(/\ last.kind = "frame" /\ last'.kind = "frame"
        /\ last.frame.hand /\ last'.frame.hand
        /\ last'.frame.wristY # last.frame.wristY
        /\ last'.frame = [last.frame EXCEPT !.wristY = last'.frame.wristY]) =>
          <<sceneState, rotationSpeed, selectedPhotoIndex>>'
             # <<sceneState, rotationSpeed, selectedPhotoIndex>>]_vars

\* C25: when the nearest intersection of the pinch ray is a photo mesh of
\* ornament i, findClosestPhoto returns i.
C25_HitTestResolves ==
    (last.kind = "timer" /\ last.target # Null) => last.hit = last.target

\* the effect runs whose predictWebcam loop is scheduled
LiveLoops == {k \in DOMAIN setups : setups[k].pc = "loop"}

\* C26: whatever the interleaving of effect re-runs and setup steps, at most one
\* predictWebcam loop is scheduled.
C26_OneLoopLive ==
    Cardinality(LiveLoops) <= 1

\* C27: PinchState is true exactly when one more PinchStart than PinchEnd has
\* been emitted since the start, and the difference is always 0 or 1 (the two
\* events alternate, PinchStart first), also across an effect re-run.
C27_PinchAlternates ==
    /\ pinchHist.balance \in {0, 1}
    /\ isPinching <=> (pinchHist.balance = 1)

\* C27 witness: the frame that started a pinch also assembled the tree, so the
\* effect was torn down and set up again while the pinch is held
C27_Witness ==
    /\ FrameStep
    /\ Has(last.events, "PinchStart")
    /\ last.preScene = "CHAOS" /\ sceneState = "FORMED"
    /\ setups[Len(setups)].pc = "download"
    /\ isPinching
    /\ pinchHist.balance = 1

\* C28: a pinch edge seen while the formation is and stays FORMED sets PinchState
\* and its PinchStart is discarded; as long as the tips have stayed together since
\* then, no frame emits a PinchStart, whatever the formation has become.
C28_DroppedNotReplayed ==
    /\ (FrameStep /\ Has(last.events, "PinchStart")
            /\ last.preScene = "FORMED" /\ sceneState = "FORMED") =>
          (isPinching /\ ~last.accepted)
    /\ (FrameStep /\ last.heldBefore /\ TipsClose(last.frame)) =>
          ~Has(last.events, "PinchStart")

\* C29: a processed frame labelled Open_Palm with a score of at most 0.4 emits no
\* SetFormation, and its pinch is evaluated: tips closer than 0.08 with PinchState
\* false emit PinchStart, tips apart with PinchState true emit PinchEnd.
C29_UnsurePalmPinches ==
    (/\ FrameStep
     /\ last.frame.hand /\ last.frame.n >= 9
     /\ last.frame.label = "Open_Palm" /\ last.frame.score <= 40) =>
        /\ ~Has(last.events, "SetFormation")
        /\ (TipsClose(last.frame) /\ ~last.prePinch) =>
              (Count(last.events, "PinchStart") = 1 /\ isPinching)
        /\ (~TipsClose(last.frame) /\ last.prePinch) =>
              (Count(last.events, "PinchEnd") = 1 /\ ~isPinching)

\* C29 witness: an Open_Palm of score 0.4 with the tips 0.05 apart started a pinch
\* that handlePinchStart accepted
C29_Witness ==
    /\ FrameStep
    /\ last.frame.label = "Open_Palm" /\ last.frame.score = 40
    /\ TipsClose(last.frame)
    /\ ~last.prePinch
    /\ Has(last.events, "PinchStart")
    /\ last.accepted
    /\ isPinching

\* C30: after every step, ornament i is flagged selected exactly when i is
\* selectedPhotoIndex, and the step overwrote the originalPosition of an ornament
\* only if its flag went from false to true in that step.
C30_SelectionFlag ==
    [][/\ \A i \in DOMAIN data' : data'[i].isSelected <=> (i = selectedPhotoIndex')
       /\ \A i \in last'.stored : ~data[i].isSelected /\ data'[i].isSelected]_vars

\* C30 witness: a pinch timer selected ornament 1 and stored its position, and
\* only ornament 1 is flagged
C30_Witness ==
    /\ last.kind = "timer"
    /\ last.stored = {1}
    /\ selectedPhotoIndex = 1
    /\ data[1].isSelected /\ ~data[0].isSelected

====
